---- MODULE Spec2Model ----
(***************************************************************************)
(* Portfolio analysis of MAIS MERCANTIL: analise_portfolio.py (the batch   *)
(* script) and dashboard.py (the interactive variant of the same scoring). *)
(* DataFrames are sequences of records, float64 values are exact           *)
(* rationals n/d in lowest terms, and d = 0 is NaN (the result of 0/0).    *)
(***************************************************************************)
EXTENDS Integers, Sequences, FiniteSets, TLC

VARIABLES pc, vendas_df, clientes_df, metricas, principais_canais,
          subcategorias_selecionadas, resultados_skus, df_skus,
          grupos, top, saida

vars == <<pc, vendas_df, clientes_df, metricas, principais_canais,
          subcategorias_selecionadas, resultados_skus, df_skus,
          grupos, top, saida>>

(* ------------------------------ bounds --------------------------------- *)
\* rows of bd_vendas.xlsx
MaxVendas == 4
\* groups of one frame handed to nlargest (NlargestSpec)
MaxGrupos == 11
\* subcategories and SKUs of the larger tables (DriverSpec)
MaxSubGrande == 6
MaxSkuGrande == 11
\* runs of main on the same two files (DriverSpec)
MaxExecucoes == 2
\* rows of a bd_vendas.xlsx that lacks a column (SchemaSpec)
MaxVendasEsquema == 2
\* rows of bd_vendas.xlsx for the calls on any channel and pair (ChamadaSpec)
MaxVendasChamada == 2

(* --------------------------- float64 values ---------------------------- *)
Abs(x) == IF x < 0 THEN 0 - x ELSE x

RECURSIVE GCD(_, _)
GCD(a, b) == IF b = 0 THEN a ELSE GCD(b, a % b)

NaN == [n |-> 0, d |-> 0]

IsNaN(x) == x.d = 0

Frac(n, d) ==
    IF d = 0 THEN NaN
    ELSE LET g == GCD(Abs(n), Abs(d))
             s == IF d < 0 THEN 0 - 1 ELSE 1
         IN  [n |-> (s * n) \div g, d |-> (s * d) \div g]

R(i) == [n |-> i, d |-> 1]

RAdd(a, b) ==
    IF IsNaN(a) \/ IsNaN(b) THEN NaN ELSE Frac(a.n * b.d + b.n * a.d, a.d * b.d)

RSub(a, b) ==
    IF IsNaN(a) \/ IsNaN(b) THEN NaN ELSE Frac(a.n * b.d - b.n * a.d, a.d * b.d)

RMul(a, b) ==
    IF IsNaN(a) \/ IsNaN(b) THEN NaN ELSE Frac(a.n * b.n, a.d * b.d)

\* The only zero divisor of this program is max - min of a column whose
\* values are all equal, where the dividend value - min is zero too: 0/0.
RDiv(a, b) ==
    IF IsNaN(a) \/ IsNaN(b) THEN NaN ELSE Frac(a.n * b.d, a.d * b.n)

\* Comparisons with NaN are false.
RLe(a, b) == ~IsNaN(a) /\ ~IsNaN(b) /\ a.n * b.d <= b.n * a.d

RLt(a, b) == ~IsNaN(a) /\ ~IsNaN(b) /\ a.n * b.d < b.n * a.d

RGe(a, b) == RLe(b, a)

RGt(a, b) == RLt(b, a)

(* ------------------------- pandas: Series ------------------------------ *)
Col(frame, col) == [i \in DOMAIN frame |-> frame[i][col]]

Valores(serie) == {serie[i] : i \in DOMAIN serie} \ {NaN}

\* Series.min(): NaN skipped, NaN for an empty series
SerieMin(serie) ==
    LET V == Valores(serie)
    IN  IF V = {} THEN NaN ELSE CHOOSE x \in V : \A y \in V : RLe(x, y)

SerieMax(serie) ==
    LET V == Valores(serie)
    IN  IF V = {} THEN NaN ELSE CHOOSE x \in V : \A y \in V : RGe(x, y)

RECURSIVE SomaInt(_, _)
SomaInt(rows, col) ==
    IF rows = <<>> THEN 0 ELSE rows[1][col] + SomaInt(Tail(rows), col)

RECURSIVE SomaR(_, _)
SomaR(rows, col) ==
    IF rows = <<>> THEN R(0) ELSE RAdd(rows[1][col], SomaR(Tail(rows), col))

\* agg 'nunique', 'sum', 'mean' over the rows of one group (never empty)
Nunique(rows, col) == R(Cardinality({rows[i][col] : i \in DOMAIN rows}))

Sum(rows, col) == R(SomaInt(rows, col))

Mean(rows, col) == RDiv(SomaR(rows, col), R(Len(rows)))

(* ------------------------- pandas: merge ------------------------------- *)
\* the missing value a left merge puts in CANAL of a row with no customer
NA == 0

\* mutant: an inner merge, whatever how says
MergeLinhaInner(v, direita, how) ==
    LET m == SelectSeq(direita, LAMBDA c : c.ID_CLIENTE = v.ID_CLIENTE)
    IN  [j \in 1..Len(m) |-> v @@ [CANAL |-> m[j].CANAL]]

MergeLinha(v, direita, how) ==
    LET m == SelectSeq(direita, LAMBDA c : c.ID_CLIENTE = v.ID_CLIENTE)
    IN  IF m = <<>>
        THEN IF how = "left" THEN << v @@ [CANAL |-> NA] >> ELSE <<>>
        ELSE [j \in 1..Len(m) |-> v @@ [CANAL |-> m[j].CANAL]]

RECURSIVE Merge(_, _, _)
Merge(esquerda, direita, how) ==
    IF esquerda = <<>> THEN <<>>
    ELSE MergeLinha(esquerda[1], direita, how) \o Merge(Tail(esquerda), direita, how)

(* ------------------------- pandas: groupby ----------------------------- *)
LexLt(a, b) == a[1] < b[1] \/ (a[1] = b[1] /\ a[2] < b[2])

RECURSIVE SortKeys(_)
SortKeys(S) ==
    IF S = {} THEN <<>>
    ELSE LET m == CHOOSE x \in S : \A y \in S \ {x} : LexLt(x, y)
         IN  <<m>> \o SortKeys(S \ {m})

\* mutant: groupby(..., dropna=False), the missing key is a group
GroupKeysComNA(frame, k1, k2) ==
    SortKeys({<<frame[i][k1], frame[i][k2]>> : i \in DOMAIN frame})

\* groupby([k1, k2]): the observed key pairs, sorted; rows with a missing
\* key are dropped (dropna=True)
GroupKeys(frame, k1, k2) ==
    SortKeys({<<frame[i][k1], frame[i][k2]>> : i \in
                 {j \in DOMAIN frame : frame[j][k1] # NA /\ frame[j][k2] # NA}})

GroupRows(frame, k1, k2, key) ==
    SelectSeq(frame, LAMBDA r : r[k1] = key[1] /\ r[k2] = key[2])

(* ------------------------- pandas: nlargest ---------------------------- *)
Min(a, b) == IF a <= b THEN a ELSE b

\* indices of idxs, largest value first, equal values in row order
RECURSIVE OrdenaDesc(_, _)
OrdenaDesc(serie, idxs) ==
    IF idxs = {} THEN <<>>
    ELSE LET m == CHOOSE i \in idxs : \A j \in idxs \ {i} :
                      \/ RGt(serie[i], serie[j])
                      \/ (serie[i] = serie[j] /\ i < j)
         IN  <<m>> \o OrdenaDesc(serie, idxs \ {m})

RECURSIVE OrdenaIdx(_)
OrdenaIdx(idxs) ==
    IF idxs = {} THEN <<>>
    ELSE LET m == CHOOSE i \in idxs : \A j \in idxs : i <= j
         IN  <<m>> \o OrdenaIdx(idxs \ {m})

\* mutant: the rows whose col is NaN are dropped
NLargestSemNaN(frame, n, col) ==
    LET serie == Col(frame, col)
        ok    == {i \in DOMAIN frame : ~IsNaN(serie[i])}
        ordem == OrdenaDesc(serie, ok)
    IN  [k \in 1..Min(n, Len(ordem)) |-> frame[ordem[k]]]

\* frame.nlargest(n, col): rows by col descending (keep='first'), the rows
\* whose col is NaN after them in row order, cut to n rows
NLargest(frame, n, col) ==
    LET serie == Col(frame, col)
        ok    == {i \in DOMAIN frame : ~IsNaN(serie[i])}
        ordem == OrdenaDesc(serie, ok) \o OrdenaIdx(DOMAIN frame \ ok)
    IN  [k \in 1..Min(n, Len(ordem)) |-> frame[ordem[k]]]

RECURSIVE Unicos(_)
Unicos(s) ==
    IF s = <<>> THEN <<>>
    ELSE <<s[1]>> \o Unicos(SelectSeq(Tail(s), LAMBDA x : x # s[1]))

\* Series.value_counts(): one row per value (missing values dropped),
\* largest count first, equal counts in order of first appearance
ValueCounts(serie) ==
    LET u == Unicos(SelectSeq(serie, LAMBDA x : x # NA))
        f == [i \in DOMAIN u |->
                 [valor |-> u[i],
                  count |-> R(Cardinality({j \in DOMAIN serie : serie[j] = u[i]}))]]
    IN  NLargest(f, Len(f), "count")

(* ----------------------- analise_portfolio.py -------------------------- *)
PESO_POPULARIDADE == Frac(3, 10)

PESO_FATURAMENTO == Frac(4, 10)

PESO_MARGEM == Frac(3, 10)

NUM_CANAIS == 2

TOP_SUBCATEGORIAS == 5

TOP_SKUS == 10

\* (serie - serie.min()) / (serie.max() - serie.min())
MinMax(serie) ==
    LET mn == SerieMin(serie)
        mx == SerieMax(serie)
    IN  [i \in DOMAIN serie |-> RDiv(RSub(serie[i], mn), RSub(mx, mn))]

\* mutant: the weights of revenue and margin exchanged
ScoreMargemMaior(r) ==
    RAdd(RAdd(RMul(r.ID_CLIENTE_NORM, PESO_POPULARIDADE),
              RMul(r.VENDA_VALOR_NORM, PESO_MARGEM)),
         RMul(r.MARGEM_NORM, PESO_FATURAMENTO))

Score(r) ==
    RAdd(RAdd(RMul(r.ID_CLIENTE_NORM, PESO_POPULARIDADE),
              RMul(r.VENDA_VALOR_NORM, PESO_FATURAMENTO)),
         RMul(r.MARGEM_NORM, PESO_MARGEM))

AgregarMetricas(df_analise) ==
    LET keys == GroupKeys(df_analise, "CANAL", "SUBCATEGORIA_SKU")
    IN  [k \in DOMAIN keys |->
           LET g == GroupRows(df_analise, "CANAL", "SUBCATEGORIA_SKU", keys[k])
           IN  [CANAL            |-> keys[k][1],
                SUBCATEGORIA_SKU |-> keys[k][2],
                ID_SKU           |-> Nunique(g, "ID_SKU"),
                ID_CLIENTE       |-> Nunique(g, "ID_CLIENTE"),
                VENDA_VALOR      |-> Sum(g, "VENDA_VALOR"),
                MARGEM           |-> Mean(g, "MARGEM")]]

\* one min and max per column over every (channel, subcategory) row
NormalizarMetricas(m) ==
    LET sku == MinMax(Col(m, "ID_SKU"))
        cli == MinMax(Col(m, "ID_CLIENTE"))
        val == MinMax(Col(m, "VENDA_VALOR"))
        mar == MinMax(Col(m, "MARGEM"))
    IN  [i \in DOMAIN m |->
           m[i] @@ [ID_SKU_NORM      |-> sku[i],
                    ID_CLIENTE_NORM  |-> cli[i],
                    VENDA_VALOR_NORM |-> val[i],
                    MARGEM_NORM      |-> mar[i]]]

Pontuar(frame) == [i \in DOMAIN frame |-> frame[i] @@ [SCORE |-> Score(frame[i])]]

calcular_metricas_subcategoria(vendas, clientes) ==
    Pontuar(NormalizarMetricas(AgregarMetricas(Merge(vendas, clientes, "left"))))

AgregarSkus(df_filtrado) ==
    LET keys == GroupKeys(df_filtrado, "ID_SKU", "NOME_SKU")
    IN  [k \in DOMAIN keys |->
           LET g == GroupRows(df_filtrado, "ID_SKU", "NOME_SKU", keys[k])
           IN  [ID_SKU      |-> keys[k][1],
                NOME_SKU    |-> keys[k][2],
                ID_CLIENTE  |-> Nunique(g, "ID_CLIENTE"),
                VENDA_VALOR |-> Sum(g, "VENDA_VALOR"),
                MARGEM      |-> Mean(g, "MARGEM")]]

NormalizarSkus(skus) ==
    LET cli == MinMax(Col(skus, "ID_CLIENTE"))
        val == MinMax(Col(skus, "VENDA_VALOR"))
        mar == MinMax(Col(skus, "MARGEM"))
    IN  [i \in DOMAIN skus |->
           skus[i] @@ [ID_CLIENTE_NORM  |-> cli[i],
                       VENDA_VALOR_NORM |-> val[i],
                       MARGEM_NORM      |-> mar[i]]]

Filtrar(df_analise, canal, subcategoria) ==
    SelectSeq(df_analise,
              LAMBDA r : r.CANAL = canal /\ r.SUBCATEGORIA_SKU = subcategoria)

\* the skus frame of one (canal, subcategoria) with its SCORE column
SkusPontuados(df_analise, canal, subcategoria) ==
    Pontuar(NormalizarSkus(AgregarSkus(Filtrar(df_analise, canal, subcategoria))))

TopSkus(skus) == NLargest(skus, TOP_SKUS, "SCORE")

Pares(top_skus) == [i \in DOMAIN top_skus |-> <<top_skus[i].ID_SKU, top_skus[i].NOME_SKU>>]

Elems(s) == {s[i] : i \in DOMAIN s}

\* Pairs without rows left out of the result.
selecionar_top_skus_sem_vazios(vendas, clientes, selecionadas) ==
    LET df_analise == Merge(vendas, clientes, "left")
    IN  [canal \in DOMAIN selecionadas |->
            [sub \in {x \in Elems(selecionadas[canal]) :
                         Filtrar(df_analise, canal, x) # <<>>} |->
                Pares(TopSkus(SkusPontuados(df_analise, canal, sub)))]]

selecionar_top_skus(vendas, clientes, selecionadas) ==
    LET df_analise == Merge(vendas, clientes, "left")
    IN  [canal \in DOMAIN selecionadas |->
           [sub \in Elems(selecionadas[canal]) |->
               Pares(TopSkus(SkusPontuados(df_analise, canal, sub)))]]

\* vendas_df.merge(clientes_df, on='ID_CLIENTE')['CANAL'].value_counts()
ContagemCanais(vendas, clientes) ==
    ValueCounts(Col(Merge(vendas, clientes, "inner"), "CANAL"))

\* mutant: the first two channels met, not the two with the most rows
PrincipaisCanaisPorOrdem(vendas, clientes) ==
    LET u == Unicos(Col(Merge(vendas, clientes, "inner"), "CANAL"))
    IN  SubSeq(u, 1, Min(NUM_CANAIS, Len(u)))

PrincipaisCanais(vendas, clientes) ==
    Col(NLargest(ContagemCanais(vendas, clientes), NUM_CANAIS, "count"), "valor")

MetricasDoCanal(m, canal) == SelectSeq(m, LAMBDA r : r.CANAL = canal)

TopSubcategorias(m, canal) ==
    NLargest(MetricasDoCanal(m, canal), TOP_SUBCATEGORIAS, "SCORE")

(* ---------------------------- dashboard.py ----------------------------- *)
\* if max_val > min_val: (serie - min_val) / (max_val - min_val) else: 1.0
MinMaxGuardado(serie) ==
    LET mn == SerieMin(serie)
        mx == SerieMax(serie)
    IN  IF RGt(mx, mn)
        THEN [i \in DOMAIN serie |-> RDiv(RSub(serie[i], mn), RSub(mx, mn))]
        ELSE [i \in DOMAIN serie |-> R(1)]

\* the normalized column of the rows of one channel, by row index of m
NormDoCanal(m, col, i) ==
    LET idx == {j \in DOMAIN m : m[j].CANAL = m[i].CANAL}
        ord == OrdenaIdx(idx)
        nrm == MinMaxGuardado([k \in DOMAIN ord |-> m[ord[k]][col]])
        pos == CHOOSE k \in DOMAIN ord : ord[k] = i
    IN  nrm[pos]

DashScore(r) ==
    RAdd(RAdd(RMul(r.VENDA_VALOR_NORM, Frac(4, 10)),
              RMul(r.ID_CLIENTE_NORM, Frac(3, 10))),
         RMul(r.MARGEM_NORM, Frac(3, 10)))

DashPontuar(frame) ==
    [i \in DOMAIN frame |-> frame[i] @@ [SCORE |-> DashScore(frame[i])]]

DashNormalizarMetricas(m) ==
    [i \in DOMAIN m |->
        m[i] @@ [ID_SKU_NORM      |-> NormDoCanal(m, "ID_SKU", i),
                 ID_CLIENTE_NORM  |-> NormDoCanal(m, "ID_CLIENTE", i),
                 VENDA_VALOR_NORM |-> NormDoCanal(m, "VENDA_VALOR", i),
                 MARGEM_NORM      |-> NormDoCanal(m, "MARGEM", i)]]

\* dashboard.calcular_metricas_subcategoria(vendas_df), vendas_df merged
DashCalcularMetricas(vendas_merged) ==
    DashPontuar(DashNormalizarMetricas(AgregarMetricas(vendas_merged)))

RECURSIVE SortInts(_)
SortInts(S) ==
    IF S = {} THEN <<>>
    ELSE LET m == CHOOSE x \in S : \A y \in S : x <= y
         IN  <<m>> \o SortInts(S \ {m})

DashAgregarSkus(df) ==
    LET keys == SortInts({df[i].ID_SKU : i \in DOMAIN df})
    IN  [k \in DOMAIN keys |->
           LET g == SelectSeq(df, LAMBDA r : r.ID_SKU = keys[k])
           IN  [ID_SKU      |-> keys[k],
                VENDA_VALOR |-> Sum(g, "VENDA_VALOR"),
                MARGEM      |-> Mean(g, "MARGEM"),
                ID_CLIENTE  |-> Nunique(g, "ID_CLIENTE")]]

DashNormalizarSkus(skus) ==
    LET val == MinMaxGuardado(Col(skus, "VENDA_VALOR"))
        mar == MinMaxGuardado(Col(skus, "MARGEM"))
        cli == MinMaxGuardado(Col(skus, "ID_CLIENTE"))
    IN  [i \in DOMAIN skus |->
           skus[i] @@ [VENDA_VALOR_NORM |-> val[i],
                       MARGEM_NORM      |-> mar[i],
                       ID_CLIENTE_NORM  |-> cli[i]]]

\* the df_skus of update_skus_table(canal, subcategoria)
DashTabelaSkus(vendas_merged, canal, subcategoria) ==
    IF subcategoria = NA THEN <<>>
    ELSE NLargest(DashPontuar(DashNormalizarSkus(DashAgregarSkus(
                      Filtrar(vendas_merged, canal, subcategoria)))),
                  TOP_SKUS, "SCORE")

(* ------------------------------ inputs --------------------------------- *)
\* bd_clientes.xlsx: ID_CLIENTE is the key of the customer base
TabelasClientes ==
    { << [ID_CLIENTE |-> 1, CANAL |-> 1], [ID_CLIENTE |-> 2, CANAL |-> 2],
         [ID_CLIENTE |-> 3, CANAL |-> 3] >>,
      << [ID_CLIENTE |-> 1, CANAL |-> 1], [ID_CLIENTE |-> 2, CANAL |-> 1],
         [ID_CLIENTE |-> 3, CANAL |-> 2] >> }

\* the customers of the sales; customer 4 is in no customer base
IdsClientes == {1, 2, 3, 4}

Canais == {1, 2, 3}

Subcategorias == {1, 2}

\* the products on sale; MARGEM as the percentage of the file ("10%")
Catalogo ==
    << [ID_SKU |-> 1, NOME_SKU |-> 1, SUBCATEGORIA_SKU |-> 1, VENDA_VALOR |-> 1, MARGEM |-> 10],
       [ID_SKU |-> 2, NOME_SKU |-> 2, SUBCATEGORIA_SKU |-> 1, VENDA_VALOR |-> 2, MARGEM |-> 30],
       [ID_SKU |-> 3, NOME_SKU |-> 3, SUBCATEGORIA_SKU |-> 2, VENDA_VALOR |-> 4, MARGEM |-> 40] >>

LinhasVenda ==
    {[ID_CLIENTE |-> c] @@ Catalogo[s] : c \in IdsClientes, s \in DOMAIN Catalogo}

\* a total order of the candidate rows, to list each table of sales once
Ordem(l) == l.ID_CLIENTE * Len(Catalogo) + l.ID_SKU

\* the tables of k rows, rows in the order of Ordem
RECURSIVE TabelasDe(_)
TabelasDe(k) ==
    IF k = 0 THEN {<<>>}
    ELSE {Append(x[1], x[2]) :
             x \in {y \in TabelasDe(k - 1) \X LinhasVenda :
                       y[1] = <<>> \/ Ordem(y[1][Len(y[1])]) <= Ordem(y[2])}}

\* bd_vendas.xlsx: up to MaxVendas rows
ArquivosVendas == UNION {TabelasDe(k) : k \in 0..MaxVendas}

\* vendas_df['MARGEM'].str.rstrip('%').astype('float') / 100.0
ConverterMargem(arquivo) ==
    [i \in DOMAIN arquivo |-> [arquivo[i] EXCEPT !.MARGEM = Frac(@, 100)]]

(* ---------------------- analise_portfolio.main ------------------------- *)
Vazio == <<>>

Init ==
    /\ pc = "inicio"
    /\ vendas_df = Vazio
    /\ clientes_df = Vazio
    /\ metricas = Vazio
    /\ principais_canais = Vazio
    /\ subcategorias_selecionadas = Vazio
    /\ resultados_skus = Vazio
    /\ df_skus = Vazio
    /\ grupos = Vazio
    /\ top = Vazio
    /\ saida = Vazio

CarregarDados ==
    /\ pc = "inicio"
    /\ \E arquivo \in ArquivosVendas, tabela \in TabelasClientes :
          /\ vendas_df' = ConverterMargem(arquivo)
          /\ clientes_df' = tabela
    /\ pc' = "metricas"
    /\ UNCHANGED <<metricas, principais_canais, subcategorias_selecionadas,
                   resultados_skus, df_skus, grupos, top, saida>>

CalcularMetricas ==
    /\ pc = "metricas"
    /\ metricas' = calcular_metricas_subcategoria(vendas_df, clientes_df)
    /\ pc' = "canais"
    /\ UNCHANGED <<vendas_df, clientes_df, principais_canais,
                   subcategorias_selecionadas, resultados_skus, df_skus, grupos, top, saida>>

IdentificarCanais ==
    /\ pc = "canais"
    /\ principais_canais' = PrincipaisCanais(vendas_df, clientes_df)
    /\ pc' = "stage_a"
    /\ UNCHANGED <<vendas_df, clientes_df, metricas, subcategorias_selecionadas,
                   resultados_skus, df_skus, grupos, top, saida>>

\* the rows main prints under "Top 5 Subcategorias para {canal}"
LinhasTop5(top_subcategorias) ==
    [i \in DOMAIN top_subcategorias |->
        [SUBCATEGORIA_SKU |-> top_subcategorias[i].SUBCATEGORIA_SKU,
         SCORE            |-> top_subcategorias[i].SCORE,
         ID_CLIENTE       |-> top_subcategorias[i].ID_CLIENTE,
         VENDA_VALOR      |-> top_subcategorias[i].VENDA_VALOR,
         MARGEM           |-> top_subcategorias[i].MARGEM]]

\* one iteration of "for canal in principais_canais", its prints included
SelecionarSubcategorias ==
    /\ pc = "stage_a"
    /\ Cardinality(DOMAIN subcategorias_selecionadas) < Len(principais_canais)
    /\ LET canal == principais_canais[Cardinality(DOMAIN subcategorias_selecionadas) + 1]
       IN  subcategorias_selecionadas' =
              (canal :> Col(TopSubcategorias(metricas, canal), "SUBCATEGORIA_SKU"))
              @@ subcategorias_selecionadas
    /\ LET canal == principais_canais[Cardinality(DOMAIN subcategorias_selecionadas) + 1]
       IN  saida' = Append(saida, [tipo |-> "top5", canal |-> canal,
                                   linhas |-> LinhasTop5(TopSubcategorias(metricas, canal))])
    /\ UNCHANGED <<pc, vendas_df, clientes_df, metricas, principais_canais,
                   resultados_skus, df_skus, grupos, top>>

\* Early start of Stage B: the call of selecionar_top_skus moved into the
\* loop over principais_canais.
SelecionarTopSkusCedo ==
    /\ pc = "stage_a"
    /\ resultados_skus' =
          selecionar_top_skus(vendas_df, clientes_df, subcategorias_selecionadas)
    /\ saida' = Append(saida, [tipo |-> "skus", resultados |-> resultados_skus'])
    /\ pc' = "fim"
    /\ UNCHANGED <<vendas_df, clientes_df, metricas, principais_canais,
                   subcategorias_selecionadas, df_skus, grupos, top>>

SelecionarTopSkus ==
    /\ pc = "stage_a"
    /\ Cardinality(DOMAIN subcategorias_selecionadas) = Len(principais_canais)
    /\ resultados_skus' =
          selecionar_top_skus(vendas_df, clientes_df, subcategorias_selecionadas)
    /\ saida' = Append(saida, [tipo |-> "skus", resultados |-> resultados_skus'])
    /\ pc' = "fim"
    /\ UNCHANGED <<vendas_df, clientes_df, metricas, principais_canais,
                   subcategorias_selecionadas, df_skus, grupos, top>>

(* ---------------------------- dashboard.py ----------------------------- *)
DashCarregarDados ==
    /\ pc = "inicio"
    /\ \E arquivo \in ArquivosVendas, tabela \in TabelasClientes :
          /\ vendas_df' = Merge(ConverterMargem(arquivo), tabela, "left")
          /\ clientes_df' = tabela
    /\ pc' = "dash_metricas"
    /\ UNCHANGED <<metricas, principais_canais, subcategorias_selecionadas,
                   resultados_skus, df_skus, grupos, top, saida>>

DashMetricas ==
    /\ pc = "dash_metricas"
    /\ metricas' = DashCalcularMetricas(vendas_df)
    /\ pc' = "dash_pronto"
    /\ UNCHANGED <<vendas_df, clientes_df, principais_canais,
                   subcategorias_selecionadas, resultados_skus, df_skus, grupos, top, saida>>

\* the callback, on any choice of the two dropdowns
UpdateSkusTable ==
    /\ pc = "dash_pronto"
    /\ \E canal \in Canais, subcategoria \in Subcategorias \cup {NA} :
          df_skus' = DashTabelaSkus(vendas_df, canal, subcategoria)
    /\ UNCHANGED <<pc, vendas_df, clientes_df, metricas, principais_canais,
                   subcategorias_selecionadas, resultados_skus, grupos, top, saida>>

Next ==
    \/ CarregarDados
    \/ CalcularMetricas
    \/ IdentificarCanais
    \/ SelecionarSubcategorias
    \/ SelecionarTopSkus
    \/ DashCarregarDados
    \/ DashMetricas
    \/ UpdateSkusTable

Spec == Init /\ [][Next]_vars

(* ------------------ main on larger tables, run again ------------------- *)
\* bd_vendas.xlsx with nsub subcategories bought in channel 1, the first
\* of them holding nsku SKUs; customer 3 buys SKU 1 too and, when orfa is
\* 1, so does customer 4, who is in no customer base.
LinhaGrande(cliente, sku, sub) ==
    [ID_CLIENTE |-> cliente, ID_SKU |-> sku, NOME_SKU |-> sku,
     SUBCATEGORIA_SKU |-> sub, VENDA_VALOR |-> 1 + (sku % 3),
     MARGEM |-> 10 * (1 + (sku % 2))]

ArquivoGrande(nsub, nsku, orfa) ==
    <<LinhaGrande(2, 1, 1)>>
    \o [k \in 1..nsku |-> LinhaGrande(1, k, 1)]
    \o [s \in 1..(nsub - 1) |-> LinhaGrande(1, nsku + s, s + 1)]
    \o <<LinhaGrande(3, 1, 1)>>
    \o [o \in 1..orfa |-> LinhaGrande(4, 1, 1)]

ArquivosGrandes ==
    {ArquivoGrande(nsub, nsku, orfa) :
        nsub \in 1..MaxSubGrande, nsku \in 1..MaxSkuGrande, orfa \in 0..1}

CarregarDadosGrandes ==
    /\ pc = "inicio"
    /\ \E arquivo \in ArquivosGrandes, tabela \in TabelasClientes :
          /\ vendas_df' = ConverterMargem(arquivo)
          /\ clientes_df' = tabela
    /\ pc' = "metricas"
    /\ UNCHANGED <<metricas, principais_canais, subcategorias_selecionadas,
                   resultados_skus, df_skus, grupos, top, saida>>

\* the runs of main that have printed their SKU lists
Execucoes(s) == Len(SelectSeq(s, LAMBDA e : e.tipo = "skus"))

\* Names of main kept from one run to the next.
ReexecutarSemLimpar ==
    /\ pc = "fim"
    /\ Execucoes(saida) < MaxExecucoes
    /\ pc' = "metricas"
    /\ UNCHANGED <<vendas_df, clientes_df, metricas, principais_canais,
                   subcategorias_selecionadas, resultados_skus, df_skus,
                   grupos, top, saida>>

\* main called again on the same two files: carregar_dados reads the same
\* tables, every name of main is bound anew, and the terminal keeps what
\* the earlier run printed.
Reexecutar ==
    /\ pc = "fim"
    /\ Execucoes(saida) < MaxExecucoes
    /\ pc' = "metricas"
    /\ metricas' = Vazio
    /\ principais_canais' = Vazio
    /\ subcategorias_selecionadas' = Vazio
    /\ resultados_skus' = Vazio
    /\ UNCHANGED <<vendas_df, clientes_df, df_skus, grupos, top, saida>>

NextD ==
    \/ CarregarDadosGrandes
    \/ CalcularMetricas
    \/ IdentificarCanais
    \/ SelecionarSubcategorias
    \/ SelecionarTopSkus
    \/ Reexecutar

DriverSpec == Init /\ [][NextD]_vars

(* --------------------- main on a file without a column ---------------- *)
\* df without the column col
Sem(df, col) ==
    [i \in DOMAIN df |-> [c \in (DOMAIN df[i]) \ {col} |-> df[i][c]]]

\* df[col] does not raise KeyError; the tables of SchemaSpec have rows
TemColuna(df, col) == \A i \in DOMAIN df : col \in DOMAIN df[i]

\* the columns the two files are read for, by file
ColunasLidas ==
    {<<"vendas", col>> : col \in {"ID_CLIENTE", "ID_SKU", "NOME_SKU",
                                   "SUBCATEGORIA_SKU", "VENDA_VALOR", "MARGEM"}}
    \cup {<<"clientes", col>> : col \in {"ID_CLIENTE", "CANAL"}}

ArquivosEsquema == UNION {TabelasDe(k) : k \in 1..MaxVendasEsquema}

\* carregar_dados on files of which one lacks a column: without MARGEM in
\* bd_vendas.xlsx, vendas_df['MARGEM'] raises KeyError
CarregarDadosSemColuna ==
    /\ pc = "inicio"
    /\ \E arquivo \in ArquivosEsquema, tabela \in TabelasClientes,
          falta \in ColunasLidas :
          IF falta = <<"vendas", "MARGEM">>
          THEN /\ pc' = "erro"
               /\ UNCHANGED <<vendas_df, clientes_df>>
          ELSE /\ pc' = "metricas"
               /\ vendas_df' = IF falta[1] = "vendas"
                                THEN Sem(ConverterMargem(arquivo), falta[2])
                                ELSE ConverterMargem(arquivo)
               /\ clientes_df' = IF falta[1] = "clientes"
                                  THEN Sem(tabela, falta[2])
                                  ELSE tabela
    /\ UNCHANGED <<metricas, principais_canais, subcategorias_selecionadas,
                   resultados_skus, df_skus, grupos, top, saida>>

\* the merge on ID_CLIENTE, the groupby keys and the agg columns of
\* calcular_metricas_subcategoria
ColunasDeMetricas ==
    /\ TemColuna(vendas_df, "ID_CLIENTE")
    /\ TemColuna(clientes_df, "ID_CLIENTE")
    /\ TemColuna(clientes_df, "CANAL")
    /\ \A col \in {"SUBCATEGORIA_SKU", "ID_SKU", "VENDA_VALOR", "MARGEM"} :
          TemColuna(vendas_df, col)

MetricasComColunas == ColunasDeMetricas /\ CalcularMetricas

\* KeyError out of calcular_metricas_subcategoria, not caught by main
FalhaMetricas ==
    /\ pc = "metricas"
    /\ ~ColunasDeMetricas
    /\ pc' = "erro"
    /\ UNCHANGED <<vendas_df, clientes_df, metricas, principais_canais,
                   subcategorias_selecionadas, resultados_skus, df_skus,
                   grupos, top, saida>>

\* selecionar_top_skus reaches groupby(['ID_SKU', 'NOME_SKU']) once per
\* selected pair, and not at all when there is none
AlgumParSelecionado ==
    \E canal \in DOMAIN subcategorias_selecionadas :
        subcategorias_selecionadas[canal] # <<>>

TopSkusComColunas ==
    /\ TemColuna(vendas_df, "NOME_SKU") \/ ~AlgumParSelecionado
    /\ SelecionarTopSkus

\* KeyError out of selecionar_top_skus, after the loop of main has printed
FalhaTopSkus ==
    /\ pc = "stage_a"
    /\ Cardinality(DOMAIN subcategorias_selecionadas) = Len(principais_canais)
    /\ ~TemColuna(vendas_df, "NOME_SKU")
    /\ AlgumParSelecionado
    /\ pc' = "erro"
    /\ UNCHANGED <<vendas_df, clientes_df, metricas, principais_canais,
                   subcategorias_selecionadas, resultados_skus, df_skus,
                   grupos, top, saida>>

NextE ==
    \/ CarregarDadosSemColuna
    \/ MetricasComColunas
    \/ FalhaMetricas
    \/ IdentificarCanais
    \/ SelecionarSubcategorias
    \/ TopSkusComColunas
    \/ FalhaTopSkus

SchemaSpec == Init /\ [][NextE]_vars

(* ------------- the two selections on any channel and pair ------------- *)
ArquivosChamada == UNION {TabelasDe(k) : k \in 0..MaxVendasChamada}

CarregarDadosChamada ==
    /\ pc = "inicio"
    /\ \E arquivo \in ArquivosChamada, tabela \in TabelasClientes :
          /\ vendas_df' = ConverterMargem(arquivo)
          /\ clientes_df' = tabela
    /\ pc' = "metricas"
    /\ UNCHANGED <<metricas, principais_canais, subcategorias_selecionadas,
                   resultados_skus, df_skus, grupos, top, saida>>

\* arguments of selecionar_top_skus: one or two channels, each with a
\* list of subcategories
ListasDeSubcategorias == {<<1>>, <<1, 2>>, <<2, 1>>}

Selecoes ==
    {(c1 :> l1) @@ (c2 :> l2) :
        c1 \in Canais, c2 \in Canais,
        l1 \in ListasDeSubcategorias, l2 \in ListasDeSubcategorias}

\* selecionar_top_skus called with any such argument
ChamarSelecionarTopSkus ==
    /\ pc = "metricas"
    /\ \E selecionadas \in Selecoes :
          /\ subcategorias_selecionadas' = selecionadas
          /\ resultados_skus' = selecionar_top_skus(vendas_df, clientes_df, selecionadas)
    /\ pc' = "chamada_skus"
    /\ UNCHANGED <<vendas_df, clientes_df, metricas, principais_canais,
                   df_skus, grupos, top, saida>>

\* the top 5 of main's loop body, for any channel
ChamarTopSubcategorias ==
    /\ pc = "canais"
    /\ \E canal \in Canais :
          /\ principais_canais' = <<canal>>
          /\ top' = TopSubcategorias(metricas, canal)
    /\ pc' = "chamada_sub"
    /\ UNCHANGED <<vendas_df, clientes_df, metricas, subcategorias_selecionadas,
                   resultados_skus, df_skus, grupos, saida>>

NextC ==
    \/ CarregarDadosChamada
    \/ CalcularMetricas
    \/ ChamarSelecionarTopSkus
    \/ ChamarTopSubcategorias

ChamadaSpec == Init /\ [][NextC]_vars

(* --------------- scoring and selection of one frame -------------------- *)
\* Aggregated groups handed to the scoring steps directly: the frames of
\* more than TOP_SUBCATEGORIAS and TOP_SKUS groups, which no table of
\* MaxVendas rows yields.
Perfis ==
    { [ID_CLIENTE |-> R(10), VENDA_VALOR |-> R(1000), MARGEM |-> Frac(20, 100)],
      [ID_CLIENTE |-> R(5),  VENDA_VALOR |-> R(500),  MARGEM |-> Frac(40, 100)] }

\* the groups as the subcategories 1, 2, ... of channel 1
FrameSub(g) ==
    [i \in DOMAIN g |->
        [CANAL |-> 1, SUBCATEGORIA_SKU |-> i, ID_SKU |-> R(1)] @@ g[i]]

\* the groups as the SKUs 1, 2, ... of one (canal, subcategoria)
FrameSku(g) == [i \in DOMAIN g |-> [ID_SKU |-> i, NOME_SKU |-> i] @@ g[i]]

FrameDashSku(g) == [i \in DOMAIN g |-> [ID_SKU |-> i] @@ g[i]]

SubPontuadas(g) == Pontuar(NormalizarMetricas(FrameSub(g)))

SkuPontuados(g) == Pontuar(NormalizarSkus(FrameSku(g)))

DashSkuPontuados(g) == DashPontuar(DashNormalizarSkus(FrameDashSku(g)))

InitN ==
    /\ pc = "grupos"
    /\ vendas_df = Vazio
    /\ clientes_df = Vazio
    /\ metricas = Vazio
    /\ principais_canais = Vazio
    /\ subcategorias_selecionadas = Vazio
    /\ resultados_skus = Vazio
    /\ df_skus = Vazio
    /\ grupos = Vazio
    /\ top = Vazio
    /\ saida = Vazio

NovoGrupo ==
    /\ pc = "grupos"
    /\ Len(grupos) < MaxGrupos
    /\ \E p \in Perfis : grupos' = Append(grupos, p)
    /\ UNCHANGED <<pc, vendas_df, clientes_df, metricas, principais_canais,
                   subcategorias_selecionadas, resultados_skus, df_skus, top, saida>>

\* main: metricas[metricas['CANAL'] == canal].nlargest(5, 'SCORE')
TopDeSubcategorias ==
    /\ pc = "grupos"
    /\ top' = TopSubcategorias(SubPontuadas(grupos), 1)
    /\ pc' = "top_sub"
    /\ UNCHANGED <<vendas_df, clientes_df, metricas, principais_canais,
                   subcategorias_selecionadas, resultados_skus, df_skus, grupos, saida>>

\* selecionar_top_skus: skus.nlargest(10, 'SCORE')
TopDeSkus ==
    /\ pc = "grupos"
    /\ top' = TopSkus(SkuPontuados(grupos))
    /\ pc' = "top_sku"
    /\ UNCHANGED <<vendas_df, clientes_df, metricas, principais_canais,
                   subcategorias_selecionadas, resultados_skus, df_skus, grupos, saida>>

\* update_skus_table: df_skus.nlargest(10, 'SCORE')
TopDeSkusDash ==
    /\ pc = "grupos"
    /\ top' = NLargest(DashSkuPontuados(grupos), TOP_SKUS, "SCORE")
    /\ pc' = "top_dash"
    /\ UNCHANGED <<vendas_df, clientes_df, metricas, principais_canais,
                   subcategorias_selecionadas, resultados_skus, df_skus, grupos, saida>>

NextN ==
    \/ NovoGrupo
    \/ TopDeSubcategorias
    \/ TopDeSkus
    \/ TopDeSkusDash

NlargestSpec == InitN /\ [][NextN]_vars

(* ------------------------------ claims --------------------------------- *)
\* f'{col}_NORM'
NomeNorm ==
    [ID_SKU      |-> "ID_SKU_NORM",
     ID_CLIENTE  |-> "ID_CLIENTE_NORM",
     VENDA_VALOR |-> "VENDA_VALOR_NORM",
     MARGEM      |-> "MARGEM_NORM"]

ColunasSub == {"ID_SKU", "ID_CLIENTE", "VENDA_VALOR", "MARGEM"}

ColunasSku == {"ID_CLIENTE", "VENDA_VALOR", "MARGEM"}

\* main has computed metricas
MetricasProntas == pc \in {"canais", "stage_a", "fim"}

DfAnalise == Merge(vendas_df, clientes_df, "left")

\* the (canal, subcategoria) pairs Stage A selected
ParesSelecionados ==
    {x \in Canais \X Subcategorias :
        /\ x[1] \in DOMAIN subcategorias_selecionadas
        /\ x[2] \in Elems(subcategorias_selecionadas[x[1]])}

SemVariacao(frame, col) ==
    /\ frame # <<>>
    /\ SerieMax(Col(frame, col)) = SerieMin(Col(frame, col))

TodosUm(frame, cols) ==
    \A i \in DOMAIN frame : \A col \in cols : frame[i][NomeNorm[col]] = R(1)

DegeneradoValeUm(frame, cols) ==
    /\ \A col \in cols :
          SemVariacao(frame, col) =>
             \A i \in DOMAIN frame : frame[i][NomeNorm[col]] = R(1)
    /\ Len(frame) = 1 => TodosUm(frame, ColunasSku) /\ frame[1].SCORE = R(1)

\* C1: in the normalization of the subcategory frame and of every SKU frame
\* of analise_portfolio.py, a column whose max equals its min (a frame of a
\* single group included) is normalized to 1.0 in every row, never to an
\* undefined value, and a frame of one group gets the three normalized
\* metrics and the score equal to 1.0.
C1_DegenerateRangeIsOne ==
    /\ MetricasProntas => DegeneradoValeUm(metricas, ColunasSub)
    /\ pc = "fim" =>
          \A x \in ParesSelecionados :
             DegeneradoValeUm(SkusPontuados(DfAnalise, x[1], x[2]), ColunasSku)

\* the rows of vendas whose customer belongs to canal
VendasDoCanal(vendas, clientes, canal) ==
    SelectSeq(vendas,
              LAMBDA v : \E j \in DOMAIN clientes :
                            /\ clientes[j].ID_CLIENTE = v.ID_CLIENTE
                            /\ clientes[j].CANAL = canal)

\* C2: the subcategory rows of a channel (normalized values and score) are
\* those of the input that holds the rows of this channel only: they do not
\* depend on the rows of the other channels.
C2_NormalizationPerChannel ==
    MetricasProntas =>
       \A canal \in Canais :
          MetricasDoCanal(metricas, canal) =
             MetricasDoCanal(
                calcular_metricas_subcategoria(
                   VendasDoCanal(vendas_df, clientes_df, canal), clientes_df),
                canal)

NoIntervalo(x) == RLe(R(0), x) /\ RLe(x, R(1))

\* every normalized value in [0,1]; with max > min in the scope, the groups
\* at the max are at 1.0 and the groups at the min at 0.0
NormalizacaoLimitada(todo, escopo, cols) ==
    /\ \A i \in DOMAIN todo : \A col \in cols : NoIntervalo(todo[i][NomeNorm[col]])
    /\ \A col \in cols :
          LET serie == Col(escopo, col)
          IN  RGt(SerieMax(serie), SerieMin(serie)) =>
                 \A i \in DOMAIN escopo :
                    /\ escopo[i][col] = SerieMax(serie) =>
                          escopo[i][NomeNorm[col]] = R(1)
                    /\ escopo[i][col] = SerieMin(serie) =>
                          escopo[i][NomeNorm[col]] = R(0)

\* C3: every normalized value of the subcategory frame (scope: the groups
\* of one channel) and of the SKU frames (scope: the SKUs of one selected
\* pair) lies in [0,1], the scope's max at 1.0 and its min at 0.0 when they
\* differ.
C3_NormalizedInUnitInterval ==
    /\ MetricasProntas =>
          \A canal \in Canais :
             NormalizacaoLimitada(metricas, MetricasDoCanal(metricas, canal), ColunasSub)
    /\ pc = "fim" =>
          \A x \in ParesSelecionados :
             LET skus == SkusPontuados(DfAnalise, x[1], x[2])
             IN  NormalizacaoLimitada(skus, skus, ColunasSku)

\* C4: every score of the subcategory frame and of every SKU frame lies in
\* [0,1].
C4_ScoreInUnitInterval ==
    /\ MetricasProntas => \A i \in DOMAIN metricas : NoIntervalo(metricas[i].SCORE)
    /\ pc = "fim" =>
          \A x \in ParesSelecionados :
             LET skus == SkusPontuados(DfAnalise, x[1], x[2])
             IN  \A i \in DOMAIN skus : NoIntervalo(skus[i].SCORE)

\* main has loaded the two tables
DadosCarregados == pc \in {"metricas", "canais", "stage_a", "fim"}

TemCliente(v, clientes) ==
    \E j \in DOMAIN clientes : clientes[j].ID_CLIENTE = v.ID_CLIENTE

\* C5: the left merge on ID_CLIENTE has one row per row of vendas_df, in
\* the same order and with the same values, with or without a matching
\* customer (whose CANAL it carries, or the missing value).
C5_JoinKeepsEveryTransaction ==
    DadosCarregados =>
       /\ Len(DfAnalise) = Len(vendas_df)
       /\ \A i \in DOMAIN vendas_df :
             /\ [f \in DOMAIN vendas_df[i] |-> DfAnalise[i][f]] = vendas_df[i]
             /\ IF TemCliente(vendas_df[i], clientes_df)
                THEN \E j \in DOMAIN clientes_df :
                        /\ clientes_df[j].ID_CLIENTE = vendas_df[i].ID_CLIENTE
                        /\ clientes_df[j].CANAL = DfAnalise[i].CANAL
                ELSE DfAnalise[i].CANAL = NA

C5_Witness ==
    /\ pc = "canais"
    /\ \E i \in DOMAIN vendas_df : ~TemCliente(vendas_df[i], clientes_df)
    /\ \E i \in DOMAIN vendas_df : TemCliente(vendas_df[i], clientes_df)
    /\ metricas # <<>>

\* vendas without the rows of customers that are in no customer base
SemOrfas(vendas, clientes) == SelectSeq(vendas, LAMBDA v : TemCliente(v, clientes))

\* C6: the rows whose customer has no match change nothing that is
\* partitioned by channel (the subcategory frame, the principal channels,
\* the SKU frame of every (canal, subcategoria), the result of Stage B are
\* those of the input without these rows), and they are in the merged rows,
\* with a missing CANAL, where the total of VENDA_VALOR counts them.
C6_UnmatchedRowsOnlyInChannelFreeTotals ==
    LET limpo == SemOrfas(vendas_df, clientes_df)
    IN  /\ MetricasProntas =>
              /\ metricas = calcular_metricas_subcategoria(limpo, clientes_df)
              /\ \A i \in DOMAIN metricas : metricas[i].CANAL # NA
        /\ pc \in {"stage_a", "fim"} =>
              principais_canais = PrincipaisCanais(limpo, clientes_df)
        /\ pc = "fim" =>
              /\ resultados_skus =
                    selecionar_top_skus(limpo, clientes_df, subcategorias_selecionadas)
              /\ \A x \in Canais \X Subcategorias :
                    SkusPontuados(DfAnalise, x[1], x[2]) =
                       SkusPontuados(Merge(limpo, clientes_df, "left"), x[1], x[2])
        /\ DadosCarregados =>
              /\ Cardinality({i \in DOMAIN DfAnalise : DfAnalise[i].CANAL = NA}) =
                    Len(vendas_df) - Len(limpo)
              /\ SomaInt(DfAnalise, "VENDA_VALOR") = SomaInt(vendas_df, "VENDA_VALOR")

C6_Witness ==
    /\ pc = "fim"
    /\ \E i \in DOMAIN vendas_df : ~TemCliente(vendas_df[i], clientes_df)
    /\ \E c \in DOMAIN resultados_skus : DOMAIN resultados_skus[c] # {}

\* the rows of vendas_df sold to a customer of canal
Contagem(canal) ==
    Cardinality({i \in DOMAIN vendas_df :
                    \E j \in DOMAIN clientes_df :
                       /\ clientes_df[j].ID_CLIENTE = vendas_df[i].ID_CLIENTE
                       /\ clientes_df[j].CANAL = canal})

CanaisComVendas == {c \in Canais : Contagem(c) > 0}

\* C10: principais_canais holds min(2, channels with sales) distinct
\* channels, each with at least as many rows as every channel left out, and
\* the counts hold only the rows of customers that have a channel.
C10_PrincipalChannelsByCount ==
    pc \in {"stage_a", "fim"} =>
       /\ Len(principais_canais) = Min(2, Cardinality(CanaisComVendas))
       /\ Cardinality(Elems(principais_canais)) = Len(principais_canais)
       /\ Elems(principais_canais) \subseteq CanaisComVendas
       /\ \A p \in Elems(principais_canais) :
             \A q \in CanaisComVendas \ Elems(principais_canais) :
                Contagem(p) >= Contagem(q)
       /\ LET cont == ContagemCanais(vendas_df, clientes_df)
          IN  /\ {cont[i].valor : i \in DOMAIN cont} = CanaisComVendas
              /\ \A i \in DOMAIN cont : cont[i].count = R(Contagem(cont[i].valor))

\* three channels with sales; the one with the most rows is the last met
\* and comes first, and a channel with fewer rows is left out
C10_Witness ==
    /\ pc = "stage_a"
    /\ Cardinality(CanaisComVendas) = 3
    /\ Len(principais_canais) = 2
    /\ principais_canais[1] = DfAnalise[Len(DfAnalise)].CANAL
    /\ principais_canais[1] # DfAnalise[1].CANAL
    /\ \E q \in CanaisComVendas \ Elems(principais_canais) :
          Contagem(principais_canais[1]) > Contagem(q)

Ordenado(t) == \A i \in 1..(Len(t) - 1) : RGe(t[i].SCORE, t[i + 1].SCORE)

\* no row of todo outside t has a score above the score of a row of t
NenhumMaiorFora(t, todo) ==
    \A i \in DOMAIN todo :
       todo[i] \notin Elems(t) => \A k \in DOMAIN t : ~RGt(todo[i].SCORE, t[k].SCORE)

\* C8: the top 5 subcategories of each principal channel and the top 10
\* SKUs of each selected pair are in non-increasing score order, and no
\* group left out has a score above the score of a group kept.
C8_TopNOrdered ==
    /\ pc \in {"stage_a", "fim"} =>
          \A canal \in DOMAIN subcategorias_selecionadas :
             /\ Ordenado(TopSubcategorias(metricas, canal))
             /\ NenhumMaiorFora(TopSubcategorias(metricas, canal),
                                MetricasDoCanal(metricas, canal))
    /\ pc = "fim" =>
          \A x \in ParesSelecionados :
             LET skus == SkusPontuados(DfAnalise, x[1], x[2])
             IN  Ordenado(TopSkus(skus)) /\ NenhumMaiorFora(TopSkus(skus), skus)

\* C7: nlargest returns min(5, groups) subcategories and min(10, groups)
\* SKUs, also when the scores are NaN.
C7_TopNSize ==
    /\ pc = "top_sub" => Len(top) = Min(5, Len(grupos))
    /\ pc \in {"top_sku", "top_dash"} => Len(top) = Min(10, Len(grupos))

C7_Witness ==
    /\ pc = "top_sku"
    /\ Len(grupos) > 10
    /\ Len(top) = 10
    /\ \A i \in DOMAIN top : IsNaN(top[i].SCORE)

GrupoA == [ID_CLIENTE |-> R(10), VENDA_VALOR |-> R(1000), MARGEM |-> Frac(20, 100)]

GrupoB == [ID_CLIENTE |-> R(5), VENDA_VALOR |-> R(500), MARGEM |-> Frac(40, 100)]

Metricas3(r) == [f \in {"ID_CLIENTE", "VENDA_VALOR", "MARGEM"} |-> r[f]]

\* C9: at both levels the score of a row is 0.4 revenue + 0.3 customers +
\* 0.3 margin of its normalized values; the frame of A (1000, 10, 0.20) and
\* B (500, 5, 0.40) scores A 0.7 and B 0.3, and A comes first.
C9_WeightedScore ==
    pc \in {"top_sub", "top_sku", "top_dash"} =>
       /\ \A i \in DOMAIN top :
             top[i].SCORE =
                RAdd(RMul(top[i].VENDA_VALOR_NORM, Frac(4, 10)),
                     RAdd(RMul(top[i].ID_CLIENTE_NORM, Frac(3, 10)),
                          RMul(top[i].MARGEM_NORM, Frac(3, 10))))
       /\ grupos = <<GrupoA, GrupoB>> \/ grupos = <<GrupoB, GrupoA>> =>
             /\ Len(top) = 2
             /\ Metricas3(top[1]) = GrupoA /\ top[1].SCORE = Frac(7, 10)
             /\ Metricas3(top[2]) = GrupoB /\ top[2].SCORE = Frac(3, 10)

C9_Witness ==
    /\ pc = "top_sub"
    /\ grupos = <<GrupoB, GrupoA>>
    /\ top[1].SUBCATEGORIA_SKU = 2
    /\ top[1].SCORE = Frac(7, 10)

(* C11, C14: the two-stage driver *)
\* the SKUs of DfAnalise under one (canal, subcategoria)
SkusDoPar(canal, subcategoria) ==
    {<<r.ID_SKU, r.NOME_SKU>> : r \in Elems(Filtrar(DfAnalise, canal, subcategoria))}

SemRepetidos(s) == \A i, j \in DOMAIN s : s[i] = s[j] => i = j

\* C11: when main has finished, the output maps at most 2 channels, each
\* to at most 5 subcategories, each to a list without repetition of at
\* most 10 (sku_id, sku_name) pairs of that subcategory in that channel;
\* its channels are the principal channels and the subcategories of a
\* channel are exactly those Stage A selected for it; and Stage B has no
\* result while Stage A has not selected for every principal channel.
C11_TwoStageOutput ==
    /\ pc \in {"inicio", "metricas", "canais", "stage_a"} => resultados_skus = Vazio
    /\ pc = "fim" =>
          /\ DOMAIN subcategorias_selecionadas = Elems(principais_canais)
          /\ DOMAIN resultados_skus = DOMAIN subcategorias_selecionadas
          /\ Cardinality(DOMAIN resultados_skus) <= 2
          /\ saida[Len(saida)] = [tipo |-> "skus", resultados |-> resultados_skus]
          /\ \A canal \in DOMAIN resultados_skus :
                /\ DOMAIN resultados_skus[canal] =
                      Elems(subcategorias_selecionadas[canal])
                /\ Cardinality(DOMAIN resultados_skus[canal]) <= 5
                /\ \A sub \in DOMAIN resultados_skus[canal] :
                      /\ Len(resultados_skus[canal][sub]) <= 10
                      /\ SemRepetidos(resultados_skus[canal][sub])
                      /\ Elems(resultados_skus[canal][sub]) \subseteq SkusDoPar(canal, sub)

\* two channels, one of them with more than 5 subcategories, one of
\* these with more than 10 SKUs
C11_Witness ==
    /\ pc = "fim"
    /\ Cardinality(DOMAIN resultados_skus) = 2
    /\ \E canal \in DOMAIN resultados_skus :
          /\ Len(MetricasDoCanal(metricas, canal)) > 5
          /\ Cardinality(DOMAIN resultados_skus[canal]) = 5
          /\ \E sub \in DOMAIN resultados_skus[canal] :
                /\ Cardinality(SkusDoPar(canal, sub)) > 10
                /\ Len(resultados_skus[canal][sub]) = 10

\* what the first run of main printed: up to its SKU lists
PrimeiraExecucao ==
    IF Execucoes(saida) = 0 THEN Len(saida)
    ELSE CHOOSE h \in DOMAIN saida :
            /\ saida[h].tipo = "skus"
            /\ \A i \in 1..(h - 1) : saida[i].tipo # "skus"

PontosDoPar(canal, sub) == SkusPontuados(DfAnalise, canal, sub)

C12_SchemaErrorNoPartialResult ==
    pc = "erro" =>
        /\ saida = Vazio
        /\ subcategorias_selecionadas = Vazio
        /\ resultados_skus = Vazio

(* C13: branches without rows *)
\* C13: selecionar_top_skus returns an entry for every pair it is given:
\* the empty list for a pair that no row of the enriched table matches,
\* and a non-empty list for every other pair, whether listed before or
\* after an empty one; the top 5 of a channel that no row has is empty.
C13_EmptyBranchIsEmptyResult ==
    /\ pc = "chamada_skus" =>
          /\ DOMAIN resultados_skus = DOMAIN subcategorias_selecionadas
          /\ \A canal \in DOMAIN subcategorias_selecionadas :
             \A sub \in Elems(subcategorias_selecionadas[canal]) :
                /\ sub \in DOMAIN resultados_skus[canal]
                /\ SkusDoPar(canal, sub) = {} <=> resultados_skus[canal][sub] = <<>>
    /\ pc = "chamada_sub" =>
          ((\A r \in Elems(DfAnalise) : r.CANAL # principais_canais[1]) => top = <<>>)

\* a pair without rows listed before a pair with rows, which has its SKUs
C13_Witness ==
    /\ pc = "chamada_skus"
    /\ \E canal \in DOMAIN subcategorias_selecionadas :
          /\ Len(subcategorias_selecionadas[canal]) = 2
          /\ SkusDoPar(canal, subcategorias_selecionadas[canal][1]) = {}
          /\ resultados_skus[canal][subcategorias_selecionadas[canal][1]] = <<>>
          /\ resultados_skus[canal][subcategorias_selecionadas[canal][2]] # <<>>

(* C15: monotone scoring *)
\* g has at least the customers, the revenue and the margin of h
Domina(g, h) ==
    /\ RGe(g.ID_CLIENTE, h.ID_CLIENTE)
    /\ RGe(g.VENDA_VALOR, h.VENDA_VALOR)
    /\ RGe(g.MARGEM, h.MARGEM)

Monotono(frame) ==
    \A i, j \in DOMAIN frame :
        i # j /\ Domina(frame[i], frame[j]) => RGe(frame[i].SCORE, frame[j].SCORE)

\* C15: in the frame of subcategory metrics and in the frame of SKUs of
\* each selected pair, a group with at least the distinct customers, the
\* total revenue and the mean margin of another group has a score greater
\* than or equal to the score of that group.
C15_ScoreMonotone ==
    /\ MetricasProntas => Monotono(metricas)
    /\ pc = "fim" =>
          \A x \in ParesSelecionados :
             Monotono(SkusPontuados(DfAnalise, x[1], x[2]))
====
